---- MODULE Spec2Model ----
(***************************************************************************)
(* MFUPSI: finite-field encoding / aggregation engine and PIR query layer. *)
(*                                                                         *)
(* The module holds several specifications over one set of variables, one  *)
(* per subsystem.  A specification initialises the variable of its own     *)
(* subsystem and parks the others at Idle.                                 *)
(*                                                                         *)
(*   SpecGE     Matrix::gaussian_elimination, one loop iteration per step  *)
(*   SpecPow    Utils::fast_pow / mod_inverse, one loop iteration per step *)
(*   SpecInc    client_encode and client_incremental_update on one client  *)
(*   SpecAgg    server_aggregate over the parties in an arbitrary order     *)
(*   SpecHC     compute_pir_dimension_size, compute_hypercube_coordinates   *)
(*   SpecProto  setup_phase and update_phase on all clients and the server  *)
(*   SpecGEDim  gaussian_elimination on inputs of any row lengths           *)
(*   SpecQuery  SpecProto with query_phase                                  *)
(*   SpecCfg    compute_derived_params and the edge length, for any z       *)
(*   SpecCost   the accounted computation cost of one query                 *)
(*   SpecSV     sparse_vector, statement by statement                       *)
(*   SpecFold   the z folding rounds of one query                           *)
(*   SpecMod    add_mod, sub_mod and mul_mod on reduced operands            *)
(*   SpecMetrics the phases and reset_metrics on one client, any order      *)
(***************************************************************************)
EXTENDS Integers, Sequences, FiniteSets, TLC

VARIABLES ge, pw, inc, agg, hc, st, sv

vars == <<ge, pw, inc, agg, hc, st, sv>>

Idle == [pc |-> "idle"]

(***************************************************************************)
(* Bounds of the model.                                                    *)
(***************************************************************************)
\* uint64_t is modelled as a WordBits-bit word and __uint128_t as a
\* 2*WordBits-bit word; every modulus q is below 2^WordBits.
WordBits == 4
\* Largest number of cells of the augmented matrix [M | y]: m * (d1 + 1).
MaxCells == 6
\* Largest modulus of the linear systems.
MaxQ == 5
\* Elements of the data sets are 1..MaxElem.
MaxElem == 3
\* Largest number of parties in an aggregation.
MaxParties == 3
\* Largest number of matrix cells summed over all parties of an aggregation.
MaxAggCells == 4
\* Largest partition count and dimension count of a hypercube.
MaxB == 12
MaxZ == 3
\* Largest number of update_phase and query_phase calls after setup.
MaxPhaseCalls == 2
\* Most query_phase calls among them.
MaxQueryCalls == 1
\* Largest number of rows and largest row length of a system whose rows need
\* not have equal lengths.
MaxRows == 2
MaxRowLen == 2
\* Largest dataset_size of a configuration whose parameters are derived.
MaxDatasetSize == 6
\* Largest partition size d1 of a query whose cost is accounted.
MaxD1 == 3
\* Longest duration in ms a timed section of a phase reports.
MaxElapsedMs == 1

Word == 2 ^ WordBits
Wide == Word * Word

IsPrime(n) == n >= 2 /\ \A k \in 2..(n - 1) : n % k # 0
Primes == {n \in 2..(Word - 1) : IsPrime(n)}
GEPrimes == {n \in Primes : n <= MaxQ}

(***************************************************************************)
(* Utils: arithmetic in Z_q.                                               *)
(***************************************************************************)
\* A plausible slip: the sum is formed in uint64_t instead of __uint128_t.
add_mod_narrow(a, b, q) == ((a + b) % Word) % q

add_mod(a, b, q) == ((a + b) % Wide) % q

\* A plausible slip: a - b formed directly in the unsigned word.
sub_mod_wrap(a, b, q) == ((a - b) % Wide) % q

sub_mod(a, b, q) == ((a + ((q - b) % Wide)) % Wide) % q

\* A plausible slip: the product is formed in uint64_t instead of
\* __uint128_t.
mul_mod_narrow(a, b, q) == ((a * b) % Word) % q

mul_mod(a, b, q) == ((a * b) % Wide) % q

\* The __uint128_t intermediates of add_mod, sub_mod and mul_mod, as the
\* 128-bit type holds them.
sum128(a, b) == (a + b) % Wide
negated128(b, q) == (q - b) % Wide
result128(a, b, q) == (a + negated128(b, q)) % Wide
product128(a, b) == (a * b) % Wide

\* One iteration of fast_pow's while loop on s = [result, b, exp, mod].
\* A plausible slip: the product is formed in uint64_t.
FastPowIterNarrow(s) ==
    [result |-> IF s.exp % 2 = 1 THEN ((s.result * s.b) % Word) % s.mod
                                 ELSE s.result,
     b      |-> ((s.b * s.b) % Word) % s.mod,
     exp    |-> s.exp \div 2,
     mod    |-> s.mod]

FastPowIter(s) ==
    [result |-> IF s.exp % 2 = 1 THEN ((s.result * s.b) % Wide) % s.mod
                                 ELSE s.result,
     b      |-> ((s.b * s.b) % Wide) % s.mod,
     exp    |-> s.exp \div 2,
     mod    |-> s.mod]

FastPowStart(base, exp, q) == [result |-> 1, b |-> base % q, exp |-> exp, mod |-> q]

RECURSIVE FastPowLoop(_)
FastPowLoop(s) == IF s.exp > 0 THEN FastPowLoop(FastPowIter(s)) ELSE s.result

fast_pow(base, exp, q) ==
    IF q = 1 THEN 0 ELSE FastPowLoop(FastPowStart(base, exp, q))

\* A plausible slip: exponent q - 1 instead of q - 2.
mod_inverse_off(a, q) == IF a = 0 THEN 0 ELSE fast_pow(a, (q - 1) % Word, q)

\* q - 2 is computed in uint64_t.
mod_inverse(a, q) == IF a = 0 THEN 0 ELSE fast_pow(a, (q - 2) % Word, q)

(***************************************************************************)
(* Utils: keyed hashing.  A hash value is an exact 64-bit word, held as a  *)
(* sequence of 8 bytes, least significant first.                           *)
(***************************************************************************)
Limbs == 1..8

\* The word of a number below 2^31.
ToBits(n) == [i \in Limbs |-> IF i <= 4 THEN (n \div (256 ^ (i - 1))) % 256 ELSE 0]

\* The word given as four 16-bit chunks, most significant first.
FromChunks(c) ==
    [i \in Limbs |-> IF (i - 1) % 2 = 0 THEN c[4 - ((i - 1) \div 2)] % 256
                                        ELSE c[4 - ((i - 1) \div 2)] \div 256]

RECURSIVE XorByteFrom(_, _, _)
XorByteFrom(x, y, i) ==
    IF i > 7 THEN 0
    ELSE (((x \div (2 ^ i)) + (y \div (2 ^ i))) % 2) * (2 ^ i) + XorByteFrom(x, y, i + 1)

Xor64(a, b) == [i \in Limbs |-> XorByteFrom(a[i], b[i], 0)]

\* a >> n for 0 <= n < 64.
Shr64(a, n) ==
    LET ls == n \div 8
        bs == n % 8
        at(i) == IF i <= 8 THEN a[i] ELSE 0
    IN  [i \in Limbs |-> (at(i + ls) \div (2 ^ bs)) + (at(i + ls + 1) % (2 ^ bs)) * (2 ^ (8 - bs))]

RECURSIVE ColumnSum(_, _, _, _)
ColumnSum(a, b, k, i) ==
    IF i > k THEN 0 ELSE a[i] * b[k + 1 - i] + ColumnSum(a, b, k, i + 1)

\* Bytes k..8 of a * b mod 2^64, by columns with a running carry.
RECURSIVE MulColumns(_, _, _, _)
MulColumns(a, b, k, carry) ==
    IF k > 8 THEN <<>>
    ELSE LET t == carry + ColumnSum(a, b, k, 1)
         IN  <<t % 256>> \o MulColumns(a, b, k + 1, t \div 256)

Mul64(a, b) == MulColumns(a, b, 1, 0)

\* The word reduced modulo a small n, from the most significant byte down.
RECURSIVE ModFrom(_, _, _, _)
ModFrom(a, n, i, r) == IF i < 1 THEN r ELSE ModFrom(a, n, i - 1, (256 * r + a[i]) % n)

Mod64(a, n) == ModFrom(a, n, 8, 0)

\* 11400714819323198485 = 0x9E37 79B9 7F4A 7C15.
PRIME == FromChunks(<<40503, 31161, 32586, 31765>>)

\* A plausible slip: the second xor-shift is left out.
hash_partition_one_shift(k1, element) ==
    LET h0 == Xor64(k1, element)
        h1 == Xor64(h0, Shr64(h0, 33))
    IN  Mul64(h1, PRIME)

hash_partition(k1, element) ==
    LET h0 == Xor64(k1, element)
        h1 == Xor64(h0, Shr64(h0, 33))
        h2 == Mul64(h1, PRIME)
    IN  Xor64(h2, Shr64(h2, 33))

prf_value(key, input) ==
    LET h0 == Xor64(key, input)
        h1 == Xor64(h0, Shr64(h0, 33))
        h2 == Mul64(h1, PRIME)
    IN  Xor64(h2, Shr64(h2, 33))

\* sparse_vector(k2, element, dimension, band_width) for 1 <= band_width <=
\* dimension, as a function over 0..dimension-1; element is a number below
\* 2^30 - band_width, so element + i does not wrap.
sparse_vector(k2, element, dimension, band_width) ==
    LET h_pos == hash_partition(k2, ToBits(element))
        pos   == Mod64(h_pos, dimension - band_width + 1)
    IN  [j \in 0..(dimension - 1) |->
           IF j >= pos /\ j < pos + band_width
           THEN Mod64(hash_partition(Xor64(k2, ToBits(element + (j - pos))),
                                     ToBits(element)), 2)
           ELSE 0]

(***************************************************************************)
(* Matrix::gaussian_elimination.  Matrices are functions over 0-based      *)
(* indices, as in the source: augmented \in [0..m-1 -> [0..d1 -> field]].  *)
(***************************************************************************)
Augment(M, y, m, d1) ==
    [i \in 0..(m - 1) |-> [j \in 0..d1 |-> IF j < d1 THEN M[i][j] ELSE y[i]]]

\* First row in [pivot_row, m) with a nonzero entry in column col, or -1.
FindBestRow(aug, pivot_row, col, m) ==
    LET cand == {row \in pivot_row..(m - 1) : aug[row][col] # 0}
    IN  IF cand = {} THEN -1
        ELSE CHOOSE r \in cand : \A r2 \in cand : r <= r2

SwapRows(aug, a, b) == [aug EXCEPT ![a] = aug[b], ![b] = aug[a]]

\* A plausible slip: the pivot row is left as it is.
NormalizeRowSkipped(row, col, d1, q) == row

NormalizeRow(row, col, d1, q) ==
    LET pivot_inv == mod_inverse(row[col], q)
    IN  [j \in 0..d1 |-> IF j >= col THEN mul_mod(row[j], pivot_inv, q) ELSE row[j]]

\* A plausible slip: the loop stops at j < d1 and leaves the right-hand side.
EliminateRowNoRhs(row, prow, col, d1, q) ==
    LET factor == row[col]
    IN  IF factor = 0 THEN row
        ELSE [j \in 0..d1 |->
                IF j >= col /\ j < d1
                THEN sub_mod(row[j], mul_mod(factor, prow[j], q), q)
                ELSE row[j]]

EliminateRow(row, prow, col, d1, q) ==
    LET factor == row[col]
    IN  IF factor = 0 THEN row
        ELSE [j \in 0..d1 |->
                IF j >= col
                THEN sub_mod(row[j], mul_mod(factor, prow[j], q), q)
                ELSE row[j]]

\* One iteration of the forward loop at column col: [aug, pivot_row].
ForwardStep(aug, pivot_row, col, m, d1, q) ==
    LET best_row == FindBestRow(aug, pivot_row, col, m)
    IN  IF best_row = -1
        THEN [aug |-> aug, pivot_row |-> pivot_row]
        ELSE LET swapped == SwapRows(aug, pivot_row, best_row)
                 prow    == NormalizeRow(swapped[pivot_row], col, d1, q)
             IN  [aug |-> [i \in 0..(m - 1) |->
                             IF i = pivot_row THEN prow
                             ELSE IF i > pivot_row
                                  THEN EliminateRow(swapped[i], prow, col, d1, q)
                                  ELSE swapped[i]],
                  pivot_row |-> pivot_row + 1]

\* First nonzero column of a row among 0..d1-1, or -1.
LeadingCol(row, d1) ==
    LET cand == {j \in 0..(d1 - 1) : row[j] # 0}
    IN  IF cand = {} THEN -1
        ELSE CHOOSE j \in cand : \A j2 \in cand : j <= j2

\* sum after subtracting the terms of columns j..d1-1.
RECURSIVE Residual(_, _, _, _, _, _)
Residual(row, result, sum, j, d1, q) ==
    IF j >= d1 THEN sum
    ELSE Residual(row, result, sub_mod(sum, mul_mod(row[j], result[j], q), q),
                  j + 1, d1, q)

\* A plausible slip: the solved variables' contributions are not subtracted.
BackSubRowNoResidual(aug, result, i, d1, q) ==
    LET leading_col == LeadingCol(aug[i], d1)
    IN  IF leading_col = -1 THEN result
        ELSE [result EXCEPT ![leading_col] =
                mul_mod(aug[i][d1], mod_inverse(aug[i][leading_col], q), q)]

\* One iteration of the back-substitution loop at row i: the new result.
BackSubRow(aug, result, i, d1, q) ==
    LET leading_col == LeadingCol(aug[i], d1)
    IN  IF leading_col = -1 THEN result
        ELSE LET sum   == Residual(aug[i], result, aug[i][d1], leading_col + 1, d1, q)
                 pivot == aug[i][leading_col]
             IN  IF pivot # 0
                 THEN [result EXCEPT ![leading_col] =
                         mul_mod(sum, mod_inverse(pivot, q), q)]
                 ELSE result

Min(a, b) == IF a <= b THEN a ELSE b

Size(f) == Cardinality(DOMAIN f)

RECURSIVE ForwardLoop(_, _, _, _, _, _)
ForwardLoop(aug, pivot_row, col, m, d1, q) ==
    IF col < d1 /\ pivot_row < m
    THEN LET r == ForwardStep(aug, pivot_row, col, m, d1, q)
         IN  ForwardLoop(r.aug, r.pivot_row, col + 1, m, d1, q)
    ELSE [aug |-> aug, pivot_row |-> pivot_row]

RECURSIVE BackLoop(_, _, _, _, _)
BackLoop(aug, result, i, d1, q) ==
    IF i < 0 THEN result
    ELSE BackLoop(aug, BackSubRow(aug, result, i, d1, q), i - 1, d1, q)

\* The whole function: the loops of the stepwise actions run to their end.
gaussian_elimination(M, y, q) ==
    LET m == Size(M)
    IN  IF m = 0 THEN <<>>
        ELSE LET d1 == Size(M[0])
                 f  == ForwardLoop(Augment(M, y, m, d1), 0, 0, m, d1, q)
             IN  BackLoop(f.aug, [j \in 0..(d1 - 1) |-> 0],
                          Min(f.pivot_row - 1, d1 - 1), d1, q)

(***************************************************************************)
(* Matrix: componentwise operations.  A matrix is a function over row      *)
(* indices 0..rows-1 of functions over column indices 0..cols-1.           *)
(***************************************************************************)
matrix_add(A, B, q) ==
    [i \in DOMAIN A |-> [j \in DOMAIN A[0] |-> add_mod(A[i][j], B[i][j], q)]]

\* A plausible slip: the operands of the subtraction are exchanged.
matrix_sub_swapped(A, B, q) ==
    [i \in DOMAIN A |-> [j \in DOMAIN A[0] |-> sub_mod(B[i][j], A[i][j], q)]]

matrix_sub(A, B, q) ==
    [i \in DOMAIN A |-> [j \in DOMAIN A[0] |-> sub_mod(A[i][j], B[i][j], q)]]

zero_matrix(rows, cols) == [i \in 0..(rows - 1) |-> [j \in 0..(cols - 1) |-> 0]]

(***************************************************************************)
(* Config::ExperimentConfig.  expansion_factor is the rational             *)
(* eps_num / eps_den.                                                      *)
(***************************************************************************)
CeilDiv(a, b) == (a + b - 1) \div b

compute_derived_params(cfg) ==
    [cfg EXCEPT !.num_partitions =
        CeilDiv((cfg.eps_den + cfg.eps_num) * cfg.dataset_size * cfg.num_clients,
                cfg.eps_den * cfg.partition_size)]

BaseConfig(N_size, d1, w, q) ==
    [num_clients |-> 2, dataset_size |-> N_size, num_updates |-> 1,
     partition_size |-> d1, eps_num |-> 0, eps_den |-> 1, pir_dimension |-> 1,
     modulus |-> q, band_width |-> w, num_partitions |-> 0]

\* Two clients of one element each, d1 = 1: b = 2 partitions of one cell.
SmallConfigs == {compute_derived_params(BaseConfig(1, 1, 1, q)) : q \in {3, 5}}

\* Configurations with d1 >= 1 and 1 <= w <= d1; b = 2 in all of them.
ValidConfigs ==
    {compute_derived_params(BaseConfig(2, 2, w, q)) : w \in {1, 2}, q \in {3, 5}}
        \cup SmallConfigs

\* One client of one element, d1 = 1: b = 1 partition of one cell.
SingleConfig ==
    compute_derived_params([BaseConfig(1, 1, 1, 3) EXCEPT !.num_clients = 1])

\* The configurations the encoding tables are built for.
TableConfigs == ValidConfigs \cup {SingleConfig}

\* Three outcomes of generate_keys: K_1, K_2, K_r as 64-bit words.
KeyPool ==
    { [k1 |-> FromChunks(<<53823, 2084, 4747, 12083>>),
       k2 |-> FromChunks(<<6168, 59409, 35119, 36907>>),
       kr |-> FromChunks(<<38193, 39005, 23965, 51704>>)],
      [k1 |-> FromChunks(<<38374, 2805, 37821, 1231>>),
       k2 |-> FromChunks(<<3249, 58012, 25996, 55828>>),
       kr |-> FromChunks(<<14488, 53648, 63979, 56012>>)],
      [k1 |-> FromChunks(<<62119, 19940, 21222, 46136>>),
       k2 |-> FromChunks(<<25875, 9998, 9886, 3383>>),
       kr |-> FromChunks(<<3164, 32720, 42659, 42064>>)] }

Elements == 1..MaxElem

(***************************************************************************)
(* Client Encoder.                                                         *)
(***************************************************************************)
\* The elements of a std::set in iteration order.
RECURSIVE SortedSeq(_)
SortedSeq(S) ==
    IF S = {} THEN <<>>
    ELSE LET x == CHOOSE x \in S : \A y \in S : x <= y
         IN  <<x>> \o SortedSeq(S \ {x})

\* The function f with every value computed when the function is built.
Tabulate(f) ==
    LET RECURSIVE T(_)
        T(R) == IF R = {} THEN <<>>
                ELSE LET x == CHOOSE x \in R : TRUE
                     IN  (x :> f[x]) @@ T(R \ {x})
    IN  T(DOMAIN f)

\* F_1: the partition of an element.
PartitionOf(keys, cfg, x) ==
    Mod64(hash_partition(keys.k1, ToBits(x)), cfg.num_partitions)

\* F_r: the representation of an element as a field element.
Representation(keys, cfg, x) == Mod64(prf_value(keys.kr, ToBits(x)), cfg.modulus)

generate_rand_vector(keys, cfg, element) ==
    sparse_vector(keys.k2, element, cfg.partition_size, cfg.band_width)

\* The coefficient row and the representation of every element, computed
\* once.
RandVectorTable ==
    Tabulate([keys \in KeyPool |-> Tabulate([cfg \in TableConfigs |->
        Tabulate([x \in Elements |->
            Tabulate(generate_rand_vector(keys, cfg, x))])])])

RepresentationTable ==
    Tabulate([keys \in KeyPool |-> Tabulate([cfg \in TableConfigs |->
        Tabulate([x \in Elements |-> Representation(keys, cfg, x)])])])

\* [M, y] for the elements of one partition, one row per element.
build_linear_system(keys, cfg, elements) ==
    [M |-> [i \in 0..(Len(elements) - 1) |->
              RandVectorTable[keys][cfg][elements[i + 1]]],
     y |-> [i \in 0..(Len(elements) - 1) |->
              RepresentationTable[keys][cfg][elements[i + 1]]]]

encode_partition(keys, cfg, partition_elements) ==
    IF partition_elements = <<>>
    THEN [r \in 0..(cfg.partition_size - 1) |-> 0]
    ELSE LET sys == build_linear_system(keys, cfg, partition_elements)
         IN  gaussian_elimination(sys.M, sys.y, cfg.modulus)

\* The encoding vector of every set of elements, computed once.
EncodePartitionTable ==
    Tabulate([keys \in KeyPool |-> Tabulate([cfg \in TableConfigs |->
        Tabulate([S \in SUBSET Elements |->
            Tabulate(encode_partition(keys, cfg, SortedSeq(S)))])])])

PartitionTable ==
    Tabulate([keys \in KeyPool |-> Tabulate([cfg \in TableConfigs |->
        Tabulate([x \in Elements |-> PartitionOf(keys, cfg, x)])])])

Members(keys, cfg, data_set, j) ==
    {x \in data_set : PartitionTable[keys][cfg][x] = j}

\* The d1 x b encoding matrix: column j is the vector of partition j.
client_encode(keys, cfg, data_set) ==
    [r \in 0..(cfg.partition_size - 1) |-> [j \in 0..(cfg.num_partitions - 1) |->
        EncodePartitionTable[keys][cfg][Members(keys, cfg, data_set, j)][r]]]

ClientEncodeTable ==
    Tabulate([keys \in KeyPool |-> Tabulate([cfg \in TableConfigs |->
        Tabulate([S \in SUBSET Elements |->
            Tabulate([r \in 0..(cfg.partition_size - 1) |->
                Tabulate(client_encode(keys, cfg, S)[r])])])])])

\* A plausible slip: only the partitions of added elements are rebuilt.
TouchedPartitionsAddOnly(keys, cfg, X_add, X_del) ==
    {PartitionTable[keys][cfg][x] : x \in X_add}

TouchedPartitions(keys, cfg, X_add, X_del) ==
    {PartitionTable[keys][cfg][x] : x \in X_add \cup X_del}

\* (new vector - old vector) per column; an untouched column is unchanged.
Delta(new_matrix, old_matrix, q) == matrix_sub(new_matrix, old_matrix, q)

\* A plausible slip: the update draws a fresh (here zero) mask for the client.
client_incremental_update_remask(keys, cfg, client, X_add, X_del) ==
    LET touched  == TouchedPartitions(keys, cfg, X_add, X_del)
        new_set  == (client.data_set \ X_del) \cup X_add
        new_enc  == [r \in 0..(cfg.partition_size - 1) |->
                       [j \in 0..(cfg.num_partitions - 1) |->
                          IF j \in touched
                          THEN EncodePartitionTable[keys][cfg][Members(keys, cfg, new_set, j)][r]
                          ELSE client.encoding_matrix[r][j]]]
    IN  [client |-> [client EXCEPT
                       !.data_set = new_set,
                       !.encoding_matrix = new_enc,
                       !.mask_matrix = zero_matrix(cfg.partition_size, cfg.num_partitions),
                       !.masked_encoding = new_enc],
         delta  |-> Delta(new_enc, client.encoding_matrix, cfg.modulus)]

\* The client after the update and the delta matrix it uploads.
client_incremental_update(keys, cfg, client, X_add, X_del) ==
    LET touched  == TouchedPartitions(keys, cfg, X_add, X_del)
        new_set  == (client.data_set \ X_del) \cup X_add
        new_enc  == [r \in 0..(cfg.partition_size - 1) |->
                       [j \in 0..(cfg.num_partitions - 1) |->
                          IF j \in touched
                          THEN EncodePartitionTable[keys][cfg][Members(keys, cfg, new_set, j)][r]
                          ELSE client.encoding_matrix[r][j]]]
        delta    == Delta(new_enc, client.encoding_matrix, cfg.modulus)
    IN  [client |-> [client EXCEPT
                       !.data_set = new_set,
                       !.encoding_matrix = new_enc,
                       !.masked_encoding = matrix_add(new_enc, client.mask_matrix, cfg.modulus)],
         delta  |-> delta]

GEShapes == {s \in (1..MaxCells) \X (1..MaxCells) : s[1] * (s[2] + 1) <= MaxCells}

GEInit ==
    /\ \E s \in GEShapes, q \in GEPrimes :
         \E M \in [0..(s[1] - 1) -> [0..(s[2] - 1) -> 0..(q - 1)]],
            y \in [0..(s[1] - 1) -> 0..(q - 1)] :
           ge = [pc |-> "build", M |-> M, y |-> y, q |-> q, m |-> s[1], d1 |-> s[2],
                 augmented |-> <<>>, pivot_row |-> 0, col |-> 0,
                 result |-> <<>>, i |-> 0, pivot_cols |-> <<>>]
    /\ pw = Idle /\ inc = Idle /\ agg = Idle /\ hc = Idle /\ st = Idle /\ sv = Idle

\* Lines 74-86: the augmented matrix is built and the forward loop is entered.
GEBuild ==
    /\ ge.pc = "build"
    /\ ge' = [ge EXCEPT !.pc = "forward",
                        !.augmented = Augment(ge.M, ge.y, ge.m, ge.d1),
                        !.pivot_row = 0, !.col = 0]
    /\ UNCHANGED <<pw, inc, agg, hc, st, sv>>

\* Lines 88-139: one iteration of the forward loop.  pivot_cols is the
\* history of the columns in which a pivot was found, one per pivot row.
GEForward ==
    /\ ge.pc = "forward"
    /\ ge.col < ge.d1 /\ ge.pivot_row < ge.m
    /\ LET r == ForwardStep(ge.augmented, ge.pivot_row, ge.col, ge.m, ge.d1, ge.q)
       IN  ge' = [ge EXCEPT !.augmented = r.aug, !.pivot_row = r.pivot_row,
                            !.col = ge.col + 1,
                            !.pivot_cols = IF r.pivot_row > ge.pivot_row
                                           THEN Append(@, ge.col) ELSE @]
    /\ UNCHANGED <<pw, inc, agg, hc, st, sv>>

\* A plausible slip: result is allocated with ones.
GEForwardEndOnes ==
    /\ ge.pc = "forward"
    /\ ~(ge.col < ge.d1 /\ ge.pivot_row < ge.m)
    /\ ge' = [ge EXCEPT !.pc = "back",
                        !.result = [j \in 0..(ge.d1 - 1) |-> 1],
                        !.i = Min(ge.pivot_row - 1, ge.d1 - 1)]
    /\ UNCHANGED <<pw, inc, agg, hc, st, sv>>

\* Lines 144-147: the forward loop ends; result is zeroed and i starts.
GEForwardEnd ==
    /\ ge.pc = "forward"
    /\ ~(ge.col < ge.d1 /\ ge.pivot_row < ge.m)
    /\ ge' = [ge EXCEPT !.pc = "back",
                        !.result = [j \in 0..(ge.d1 - 1) |-> 0],
                        !.i = Min(ge.pivot_row - 1, ge.d1 - 1)]
    /\ UNCHANGED <<pw, inc, agg, hc, st, sv>>

\* Lines 147-188: one iteration of the back-substitution loop.
GEBack ==
    /\ ge.pc = "back"
    /\ ge.i >= 0
    /\ ge' = [ge EXCEPT !.result = BackSubRow(ge.augmented, ge.result, ge.i, ge.d1, ge.q),
                        !.i = ge.i - 1]
    /\ UNCHANGED <<pw, inc, agg, hc, st, sv>>

\* The eliminated system has a row 0 = c with c # 0.
GEInconsistent ==
    \E i \in 0..(ge.m - 1) :
        LeadingCol(ge.augmented[i], ge.d1) = -1 /\ ge.augmented[i][ge.d1] # 0

\* A plausible hardening: a row 0 = c with c # 0 is reported instead of
\* returning.
GEReturnSingular ==
    /\ ge.pc = "back"
    /\ ge.i < 0
    /\ ge' = [ge EXCEPT !.pc = IF GEInconsistent THEN "singular" ELSE "done"]
    /\ UNCHANGED <<pw, inc, agg, hc, st, sv>>

\* Line 190: return result.
GEReturn ==
    /\ ge.pc = "back"
    /\ ge.i < 0
    /\ ge' = [ge EXCEPT !.pc = "done"]
    /\ UNCHANGED <<pw, inc, agg, hc, st, sv>>

GENext == GEBuild \/ GEForward \/ GEForwardEnd \/ GEBack \/ GEReturn

SpecGE == GEInit /\ [][GENext]_vars

(***************************************************************************)
(* Properties of the solver.                                               *)
(***************************************************************************)
RECURSIVE DotFrom(_, _, _, _, _)
DotFrom(row, e, j, d1, q) ==
    IF j >= d1 THEN 0
    ELSE (row[j] * e[j] + DotFrom(row, e, j + 1, d1, q)) % q

Dot(row, e, d1, q) == DotFrom(row, e, 0, d1, q)

\* The system M e = y (mod q) has a solution.
Solvable(M, y, m, d1, q) ==
    \E e \in [0..(d1 - 1) -> 0..(q - 1)] :
        \A i \in 0..(m - 1) : Dot(M[i], e, d1, q) = y[i]

GEDone == ge.pc = "done"
GESolvable == Solvable(ge.M, ge.y, ge.m, ge.d1, ge.q)

\* C1: for a consistent system over a prime field, the returned vector
\* satisfies every pivoted row of the eliminated augmented matrix: the dot
\* product of the row's coefficients with e equals its right-hand side mod q.
C1_PivotRowsSatisfied ==
    (GEDone /\ GESolvable) =>
        \A r \in 0..(ge.pivot_row - 1) :
            Dot(ge.augmented[r], ge.result, ge.d1, ge.q) = ge.augmented[r][ge.d1]

\* A consistent system with two pivoted rows whose first row needed the
\* second variable's value to be subtracted.
C1_Witness ==
    /\ GEDone /\ GESolvable
    /\ ge.pivot_row = 2
    /\ ge.augmented[0][1] # 0
    /\ ge.result[1] # 0

\* C2: when M e = y (mod q) has a solution, the returned vector satisfies
\* every equation of the input, rows that received no pivot included.
C2_OriginalRowsSatisfied ==
    (GEDone /\ GESolvable) =>
        \A i \in 0..(ge.m - 1) :
            Dot(ge.M[i], ge.result, ge.d1, ge.q) = ge.y[i]

\* A consistent system with more equations than pivots and a nonzero answer.
C2_Witness ==
    /\ GEDone /\ GESolvable
    /\ ge.pivot_row < ge.m
    /\ ge.pivot_row >= 1
    /\ \E j \in 0..(ge.d1 - 1) : ge.result[j] # 0
    /\ \E i \in 0..(ge.m - 1) : ge.y[i] # 0 /\ ge.M[i] # ge.augmented[i]

(***************************************************************************)
(* SpecPow: Utils::mod_inverse(a, q) for a prime q and a in [1, q), with   *)
(* fast_pow's loop run one iteration per step.                             *)
(***************************************************************************)
PowInit ==
    /\ \E q \in Primes : \E a \in 1..(q - 1) :
         pw = [pc |-> "call", a |-> a, q |-> q,
               s |-> [result |-> 0, b |-> 0, exp |-> 0, mod |-> 0], ret |-> 0]
    /\ ge = Idle /\ inc = Idle /\ agg = Idle /\ hc = Idle /\ st = Idle /\ sv = Idle

\* Lines 162-167 and 137-141: a # 0, so fast_pow(a, q - 2, q) is entered.
\* A prime q is never 1, so line 137 does not return.
PowCall ==
    /\ pw.pc = "call"
    /\ pw.a # 0 /\ pw.q # 1
    /\ pw' = [pw EXCEPT !.pc = "loop",
                        !.s = FastPowStart(pw.a, (pw.q - 2) % Word, pw.q)]
    /\ UNCHANGED <<ge, inc, agg, hc, st, sv>>

\* Lines 143-149: one iteration of the while loop.
PowLoop ==
    /\ pw.pc = "loop"
    /\ pw.s.exp > 0
    /\ pw' = [pw EXCEPT !.s = FastPowIter(pw.s)]
    /\ UNCHANGED <<ge, inc, agg, hc, st, sv>>

\* Line 151: the result is narrowed to uint64_t and returned.
PowReturn ==
    /\ pw.pc = "loop"
    /\ pw.s.exp = 0
    /\ pw' = [pw EXCEPT !.pc = "done", !.ret = pw.s.result % Word]
    /\ UNCHANGED <<ge, inc, agg, hc, st, sv>>

PowNext == PowCall \/ PowLoop \/ PowReturn

SpecPow == PowInit /\ [][PowNext]_vars

\* C3: for every prime q and every a in [1, q), mul_mod(mod_inverse(a, q), a, q)
\* is 1, mod_inverse being fast_pow(a, q - 2, q).
C3_InverseTimesSelfIsOne ==
    (pw.pc = "done") =>
        /\ mul_mod(pw.ret, pw.a, pw.q) = 1
        /\ pw.ret = mod_inverse(pw.a, pw.q)

\* An inverse that is neither a itself nor 1, found after several squarings.
C3_Witness ==
    /\ pw.pc = "done"
    /\ pw.q >= 11
    /\ pw.ret # pw.a /\ pw.ret # 1

(***************************************************************************)
(* SpecInc: one client holding encode(X_old) receives disjoint add and     *)
(* delete sets.                                                            *)
(***************************************************************************)
IncInit ==
    /\ \E keys \in KeyPool, cfg \in ValidConfigs, X_old \in SUBSET Elements :
         inc = [pc |-> "encoded", keys |-> keys, cfg |-> cfg,
                client |-> [data_set |-> X_old,
                            encoding_matrix |-> ClientEncodeTable[keys][cfg][X_old],
                            mask_matrix |-> zero_matrix(cfg.partition_size, cfg.num_partitions),
                            masked_encoding |-> ClientEncodeTable[keys][cfg][X_old]],
                old |-> <<>>, X_add |-> {}, X_del |-> {}, delta |-> <<>>]
    /\ ge = Idle /\ pw = Idle /\ agg = Idle /\ hc = Idle /\ st = Idle /\ sv = Idle

IncUpdate ==
    /\ inc.pc = "encoded"
    /\ \E X_add \in SUBSET (Elements \ inc.client.data_set),
          X_del \in SUBSET inc.client.data_set :
         \E r \in {client_incremental_update(inc.keys, inc.cfg, inc.client, X_add, X_del)} :
             inc' = [inc EXCEPT !.pc = "updated", !.old = inc.client,
                                !.client = r.client, !.delta = r.delta,
                                !.X_add = X_add, !.X_del = X_del]
    /\ UNCHANGED <<ge, pw, agg, hc, st, sv>>

IncNext == IncUpdate

SpecInc == IncInit /\ [][IncNext]_vars

\* C4: incremental equivalence.  With X_new = (X_old minus deletes) union
\* adds, encode(X_new) equals encode(X_old) + incremental_update(X_old, adds,
\* deletes) (mod q) on every touched partition.
C4_IncrementalEquivalence ==
    (inc.pc = "updated") =>
        LET q     == inc.cfg.modulus
            X_new == (inc.old.data_set \ inc.X_del) \cup inc.X_add
            sum   == matrix_add(client_encode(inc.keys, inc.cfg, inc.old.data_set),
                                inc.delta, q)
            fresh == client_encode(inc.keys, inc.cfg, X_new)
        IN  \A j \in TouchedPartitions(inc.keys, inc.cfg, inc.X_add, inc.X_del) :
                \A r \in 0..(inc.cfg.partition_size - 1) : fresh[r][j] = sum[r][j]

\* An update that adds and deletes at once and changes a touched column.
C4_Witness ==
    /\ inc.pc = "updated"
    /\ inc.X_add # {} /\ inc.X_del # {}
    /\ \E j \in TouchedPartitions(inc.keys, inc.cfg, inc.X_add, inc.X_del) :
         \E r \in 0..(inc.cfg.partition_size - 1) :
            /\ inc.delta[r][j] # 0
            /\ inc.client.encoding_matrix[r][j] < inc.old.encoding_matrix[r][j]

(***************************************************************************)
(* SpecAgg: the server sums n masked matrices of equal shape, one          *)
(* matrix_add per step, taking the parties in the order agg.order.         *)
(***************************************************************************)
\* Entries of the summed matrices: the whole field for a small modulus, the
\* values next to 0 and q for a larger one.
AggEntries(q) == IF q <= MaxQ THEN 0..(q - 1) ELSE {0, 1, q - 2, q - 1}

AggShapes ==
    {s \in (2..MaxParties) \X (1..MaxAggCells) \X (1..MaxAggCells) :
        s[1] * s[2] * s[3] <= MaxAggCells}

Orders(n) ==
    {f \in [1..n -> 1..n] : \A i, j \in 1..n : (i # j) => (f[i] # f[j])}

\* The accumulator after adding the matrices order[k], ..., order[n].
RECURSIVE AggregateFrom(_, _, _, _, _)
AggregateFrom(acc, masked, order, k, q) ==
    IF k > Len(order) THEN acc
    ELSE AggregateFrom(matrix_add(acc, masked[order[k]], q), masked, order, k + 1, q)

\* global_encoding = zero matrix + masked encodings in client order.
server_aggregate(masked, rows, cols, q) ==
    AggregateFrom(zero_matrix(rows, cols), masked,
                  [i \in 1..Len(masked) |-> i], 1, q)

AggInit ==
    /\ \E s \in AggShapes, q \in Primes :
         \E masked \in [1..s[1] -> [0..(s[2] - 1) -> [0..(s[3] - 1) -> AggEntries(q)]]],
            order \in Orders(s[1]) :
           agg = [pc |-> "start", q |-> q, n |-> s[1], rows |-> s[2], cols |-> s[3],
                  masked |-> masked, order |-> order, k |-> 0, acc |-> <<>>]
    /\ ge = Idle /\ pw = Idle /\ inc = Idle /\ hc = Idle /\ st = Idle /\ sv = Idle

\* The accumulator starts as the zero matrix.
AggStart ==
    /\ agg.pc = "start"
    /\ agg' = [agg EXCEPT !.pc = "sum", !.acc = zero_matrix(agg.rows, agg.cols)]
    /\ UNCHANGED <<ge, pw, inc, hc, st, sv>>

\* The next party's masked matrix is added.
AggAdd ==
    /\ agg.pc = "sum"
    /\ agg.k < agg.n
    /\ agg' = [agg EXCEPT !.k = agg.k + 1,
                          !.acc = matrix_add(agg.acc, agg.masked[agg.order[agg.k + 1]], agg.q)]
    /\ UNCHANGED <<ge, pw, inc, hc, st, sv>>

AggFinish ==
    /\ agg.pc = "sum"
    /\ agg.k = agg.n
    /\ agg' = [agg EXCEPT !.pc = "done"]
    /\ UNCHANGED <<ge, pw, inc, hc, st, sv>>

AggNext == AggStart \/ AggAdd \/ AggFinish

SpecAgg == AggInit /\ [][AggNext]_vars

\* C6: aggregation is order-independent.  For n matrices of equal shape with
\* entries in [0, q), the sum formed with matrix_add in any permutation of
\* the parties equals the sum formed in party order.
C6_OrderIndependent ==
    (agg.pc = "done") =>
        agg.acc = server_aggregate(agg.masked, agg.rows, agg.cols, agg.q)

\* Three parties summed in an order other than party order, with a partial
\* sum that passed q.
C6_Witness ==
    /\ agg.pc = "done"
    /\ agg.n = 3
    /\ agg.order # [i \in 1..3 |-> i]
    /\ agg.q > MaxQ
    /\ agg.masked[agg.order[1]][0][0] + agg.masked[agg.order[2]][0][0] > agg.q
    /\ agg.acc[0][0] # 0

(***************************************************************************)
(* SpecHC: the hypercube parameters of the PIR layer.  The edge length L   *)
(* is derived from (b, z); then a partition index is mapped to its z       *)
(* coordinates.                                                            *)
(***************************************************************************)
\* floor(b^(1/z)): the largest r with r^z <= b.
FloorRoot(b, z) == CHOOSE r \in 1..b : r ^ z <= b /\ (r + 1) ^ z > b

\* A plausible slip: the root is truncated instead of rounded up.
compute_pir_dimension_size_floor(b, z) == FloorRoot(b, z)

\* L = ceil(b^(1/z)): the root itself when it is an integer, the next
\* integer otherwise.
compute_pir_dimension_size(b, z) ==
    LET r == FloorRoot(b, z)
    IN  IF r ^ z = b THEN r ELSE r + 1

\* A plausible slip: the digits are produced least-significant first.
compute_hypercube_coordinates_lsb(j, L, z) ==
    [d \in 1..z |-> (j \div (L ^ (d - 1))) % L]

\* <<idx_1, ..., idx_z>>, most significant first:
\* idx_d = floor(j / L^(z-d)) mod L.
compute_hypercube_coordinates(j, L, z) ==
    [d \in 1..z |-> (j \div (L ^ (z - d))) % L]

\* idx_1*L^(z-1) + idx_2*L^(z-2) + ... + idx_z, by Horner's rule.
RECURSIVE RecombineFrom(_, _, _, _)
RecombineFrom(coords, L, d, acc) ==
    IF d > Len(coords) THEN acc
    ELSE RecombineFrom(coords, L, d + 1, acc * L + coords[d])

Recombine(coords, L) == RecombineFrom(coords, L, 1, 0)

HCInit ==
    /\ \E b \in 1..MaxB, z \in 1..MaxZ :
         hc = [pc |-> "config", b |-> b, z |-> z, L |-> 0, j |-> 0, coords |-> <<>>]
    /\ ge = Idle /\ pw = Idle /\ inc = Idle /\ agg = Idle /\ st = Idle /\ sv = Idle

HCDimensionSize ==
    /\ hc.pc = "config"
    /\ hc' = [hc EXCEPT !.pc = "sized", !.L = compute_pir_dimension_size(hc.b, hc.z)]
    /\ UNCHANGED <<ge, pw, inc, agg, st, sv>>

HCCoordinates ==
    /\ hc.pc = "sized"
    /\ \E j \in 0..((hc.L ^ hc.z) - 1) :
         hc' = [hc EXCEPT !.pc = "mapped", !.j = j,
                          !.coords = compute_hypercube_coordinates(j, hc.L, hc.z)]
    /\ UNCHANGED <<ge, pw, inc, agg, st, sv>>

HCNext == HCDimensionSize \/ HCCoordinates

SpecHC == HCInit /\ [][HCNext]_vars

\* C8: the hypercube decomposition is invertible.  For every j in [0, L^z)
\* the coordinates are z digits in [0, L) whose mixed-radix recombination
\* idx_1*L^(z-1) + ... + idx_z is j, and no other index has the same digits.
C8_DecompositionInvertible ==
    (hc.pc = "mapped") =>
        /\ Len(hc.coords) = hc.z
        /\ \A d \in 1..hc.z : hc.coords[d] \in 0..(hc.L - 1)
        /\ Recombine(hc.coords, hc.L) = hc.j
        /\ \A k \in 0..((hc.L ^ hc.z) - 1) :
             (k # hc.j) => (compute_hypercube_coordinates(k, hc.L, hc.z) # hc.coords)

\* An index of a three-dimensional cube whose three digits all differ.
C8_Witness ==
    /\ hc.pc = "mapped"
    /\ hc.z = 3 /\ hc.L = 3
    /\ hc.coords[1] = 2 /\ hc.coords[2] = 0 /\ hc.coords[3] = 1
    /\ hc.j >= hc.b

InvalidConfig == BaseConfig(1, 0, 1, 3)

\* The protocol runs with one outcome of generate_keys and the modulus 3.
ProtoKeys == {CHOOSE keys \in KeyPool : TRUE}

ProtoConfigs == {cfg \in SmallConfigs : cfg.modulus = 3} \cup {InvalidConfig}

\* Outcomes of the random mask generation for one client: every matrix over
\* the field.
MaskMatrices(cfg) ==
    [0..(cfg.partition_size - 1) ->
        [0..(cfg.num_partitions - 1) -> 0..(cfg.modulus - 1)]]

\* Outcomes of the random data-set generation for one client.
DataSets(cfg) == {S \in SUBSET Elements : Cardinality(S) = cfg.dataset_size}

\* One client after setup: E_i, S_i and E_i + S_i.
SetupClient(keys, cfg, data_set, mask) ==
    LET enc == ClientEncodeTable[keys][cfg][data_set]
    IN  [data_set |-> data_set, encoding_matrix |-> enc, mask_matrix |-> mask,
         masked_encoding |-> matrix_add(enc, mask, cfg.modulus)]

setup_phase(keys, cfg, clients, server, data, masks) ==
    IF cfg.partition_size = 0
    THEN [clients |-> clients, server |-> server, error |-> "InvalidDimension"]
    ELSE LET cs == [i \in 1..cfg.num_clients |->
                      SetupClient(keys, cfg, data[i], masks[i])]
         IN  [clients |-> cs,
              server  |-> [global_encoding |->
                             server_aggregate([i \in 1..cfg.num_clients |->
                                                  cs[i].masked_encoding],
                                              cfg.partition_size, cfg.num_partitions,
                                              cfg.modulus)],
              error   |-> "none"]

\* The deltas are added into the stored aggregate.
server_incremental_update(server, deltas, q) ==
    [server EXCEPT !.global_encoding =
        AggregateFrom(@, deltas, [i \in 1..Len(deltas) |-> i], 1, q)]

\* The first k clients run client_incremental_update on their choice upd[i].
RECURSIVE UpdateClients(_, _, _, _, _)
UpdateClients(keys, cfg, clients, k, upd) ==
    IF k = 0 THEN <<>>
    ELSE Append(UpdateClients(keys, cfg, clients, k - 1, upd),
                client_incremental_update(keys, cfg, clients[k],
                                          upd[k].X_add, upd[k].X_del))

\* A plausible slip: the clients that exist are updated before the count is
\* found to be too large.
update_phase_late_check(keys, cfg, clients, server, num_clients_to_update, upd) ==
    LET k == Min(num_clients_to_update, Len(clients))
        r == UpdateClients(keys, cfg, clients, k,
                           [i \in 1..k |-> IF i <= Len(upd) THEN upd[i]
                                           ELSE [X_add |-> {}, X_del |-> clients[i].data_set]])
    IN  [clients |-> [i \in 1..Len(clients) |->
                        IF i <= k THEN r[i].client ELSE clients[i]],
         server  |-> server_incremental_update(server, [i \in 1..k |-> r[i].delta],
                                               cfg.modulus),
         error   |-> IF num_clients_to_update > Len(clients)
                     THEN "UnknownClient" ELSE "none"]

\* A plausible slip: a count above the number of clients is cut down to it,
\* as the driver does before its call, and no error is raised.
update_phase_clamped(keys, cfg, clients, server, num_clients_to_update, upd) ==
    LET k == Min(num_clients_to_update, Len(clients))
        r == UpdateClients(keys, cfg, clients, k,
                           [i \in 1..k |-> IF i <= Len(upd) THEN upd[i]
                                           ELSE [X_add |-> {}, X_del |-> {}]])
    IN  [clients |-> [i \in 1..Len(clients) |->
                        IF i <= k THEN r[i].client ELSE clients[i]],
         server  |-> server_incremental_update(server, [i \in 1..k |-> r[i].delta],
                                               cfg.modulus),
         error   |-> "none"]

update_phase(keys, cfg, clients, server, num_clients_to_update, upd) ==
    IF num_clients_to_update > Len(clients)
    THEN [clients |-> clients, server |-> server, error |-> "UnknownClient"]
    ELSE LET k == num_clients_to_update
             r == UpdateClients(keys, cfg, clients, k, upd)
         IN  [clients |-> [i \in 1..Len(clients) |->
                             IF i <= k THEN r[i].client ELSE clients[i]],
              server  |-> server_incremental_update(server,
                                                    [i \in 1..k |-> r[i].delta],
                                                    cfg.modulus),
              error   |-> "none"]

\* The add and delete sets one client may be given: disjoint from resp.
\* contained in its data set, at most N_upd elements together.
ClientChoices(client, N_upd) ==
    {c \in [X_add : SUBSET (Elements \ client.data_set),
            X_del : SUBSET client.data_set] :
        Cardinality(c.X_add) + Cardinality(c.X_del) <= N_upd}

RECURSIVE ChoiceSeqs(_, _, _)
ChoiceSeqs(clients, k, N_upd) ==
    IF k = 0 THEN {<<>>}
    ELSE {Append(s, c) : s \in ChoiceSeqs(clients, k - 1, N_upd),
                         c \in ClientChoices(clients[k], N_upd)}

\* PerformanceMetrics after reset_metrics: every counter is 0.
ZeroMetrics ==
    [setup_client_encoding_time_ms |-> 0, setup_server_aggregation_time_ms |-> 0,
     setup_client_comm_bytes |-> 0, setup_total_comm_bytes |-> 0,
     update_client_time_ms |-> 0, update_server_time_ms |-> 0,
     update_client_comm_bytes |-> 0,
     query_client_gen_time_ms |-> 0, query_server_process_time_ms |-> 0,
     query_client_decrypt_time_ms |-> 0,
     query_comm_bytes |-> 0, response_comm_bytes |-> 0]

\* The bytes of one d1 x b matrix of 8-byte entries.
MatrixBytes(cfg) == cfg.partition_size * cfg.num_partitions * 8

\* What a successful setup_phase adds to the metrics: every client uploads
\* its masked encoding.
setup_phase_metrics(cfg, elapsed_ms, metrics) ==
    [metrics EXCEPT
       !.setup_client_encoding_time_ms = @ + elapsed_ms,
       !.setup_server_aggregation_time_ms = @ + elapsed_ms,
       !.setup_client_comm_bytes = @ + cfg.num_clients * MatrixBytes(cfg),
       !.setup_total_comm_bytes = @ + cfg.num_clients * MatrixBytes(cfg)]

\* A plausible slip: the update traffic is also added to the setup total.
update_phase_metrics_total(cfg, elapsed_ms, metrics) ==
    [metrics EXCEPT
       !.update_client_time_ms = @ + elapsed_ms,
       !.update_server_time_ms = @ + elapsed_ms,
       !.update_client_comm_bytes = @ + cfg.num_clients * MatrixBytes(cfg),
       !.setup_total_comm_bytes = @ + cfg.num_clients * MatrixBytes(cfg)]

\* What a successful update_phase adds to the metrics.  The documented runs
\* report the same traffic for Update as for Setup whatever the number of
\* clients updated.
update_phase_metrics(cfg, elapsed_ms, metrics) ==
    [metrics EXCEPT
       !.update_client_time_ms = @ + elapsed_ms,
       !.update_server_time_ms = @ + elapsed_ms,
       !.update_client_comm_bytes = @ + cfg.num_clients * MatrixBytes(cfg)]

\* What the three timed sections of query_phase add to the metrics.
query_phase_timers(elapsed_ms, metrics) ==
    [metrics EXCEPT
       !.query_client_gen_time_ms = @ + elapsed_ms,
       !.query_server_process_time_ms = @ + elapsed_ms,
       !.query_client_decrypt_time_ms = @ + elapsed_ms]

\* elapsed_ms is what Timer::elapsed_ms reports for a timed section of the
\* run.  error is the outcome of the last call, beyond whether that call asked
\* update_phase for more clients than exist; calls and queries count the
\* update_phase and query_phase calls made.
ProtoInit ==
    /\ \E keys \in ProtoKeys, cfg \in ProtoConfigs :
         st = [pc |-> "constructed", keys |-> keys, cfg |-> cfg,
               clients |-> <<>>, server |-> [global_encoding |-> <<>>],
               error |-> "none", calls |-> 0, beyond |-> FALSE, queries |-> 0,
               elapsed_ms |-> 1, metrics |-> ZeroMetrics]
    /\ ge = Idle /\ pw = Idle /\ inc = Idle /\ agg = Idle /\ hc = Idle /\ sv = Idle

SetupPhase ==
    /\ st.pc = "constructed"
    /\ \E data \in [1..st.cfg.num_clients -> DataSets(st.cfg)],
          masks \in [1..st.cfg.num_clients -> MaskMatrices(st.cfg)] :
         \E r \in {setup_phase(st.keys, st.cfg, st.clients, st.server, data, masks)} :
             st' = [st EXCEPT !.pc = IF r.error = "none" THEN "ready" ELSE @,
                              !.clients = r.clients, !.server = r.server,
                              !.error = r.error,
                              !.metrics = IF r.error = "none"
                                          THEN setup_phase_metrics(st.cfg, st.elapsed_ms, @)
                                          ELSE @]
    /\ UNCHANGED <<ge, pw, inc, agg, hc, sv>>

UpdatePhase ==
    /\ st.pc = "ready"
    /\ st.calls + st.queries < MaxPhaseCalls
    /\ \E n \in 0..(Len(st.clients) + 1) :
         \E upd \in ChoiceSeqs(st.clients, IF n <= Len(st.clients) THEN n ELSE 0,
                               st.cfg.num_updates) :
           \E r \in {update_phase(st.keys, st.cfg, st.clients, st.server, n, upd)} :
               st' = [st EXCEPT !.clients = r.clients, !.server = r.server,
                                !.error = r.error, !.calls = @ + 1,
                                !.beyond = n > Len(st.clients),
                                !.metrics = IF r.error = "none"
                                            THEN update_phase_metrics(st.cfg, st.elapsed_ms, @)
                                            ELSE @]
    /\ UNCHANGED <<ge, pw, inc, agg, hc, sv>>

\* A plausible slip: the query removes the first client's mask from the
\* stored aggregate to unmask the response.
query_phase_unmask(cfg, clients, server, metrics) ==
    [clients |-> clients,
     server  |-> [server EXCEPT !.global_encoding =
                    matrix_sub(@, clients[1].mask_matrix, cfg.modulus)],
     metrics |-> metrics]

\* One query: the z selection matrices go up and the d1 response entries
\* come back, 8 bytes per entry, with lwe_dimension 1; the result holds what
\* the call leaves in the clients, the server and the metrics.
query_phase(cfg, clients, server, metrics) ==
    [clients |-> clients, server |-> server,
     metrics |-> [metrics EXCEPT
                    !.query_comm_bytes = @ + cfg.pir_dimension * 4 * 8,
                    !.response_comm_bytes = @ + cfg.partition_size * 8]]

QueryPhase ==
    /\ st.pc = "ready"
    /\ st.queries < MaxQueryCalls
    /\ st.calls + st.queries < MaxPhaseCalls
    /\ \E r \in {query_phase(st.cfg, st.clients, st.server, st.metrics)} :
         st' = [st EXCEPT !.clients = r.clients, !.server = r.server,
                          !.metrics = query_phase_timers(st.elapsed_ms, r.metrics),
                          !.queries = @ + 1,
                          !.error = "none", !.beyond = FALSE]
    /\ UNCHANGED <<ge, pw, inc, agg, hc, sv>>

\* reset_metrics clears every counter and nothing else.
ResetMetrics ==
    /\ st.pc \in {"constructed", "ready"}
    /\ st' = [st EXCEPT !.metrics = ZeroMetrics]
    /\ UNCHANGED <<ge, pw, inc, agg, hc, sv>>

ProtoNext == SetupPhase \/ UpdatePhase

\* The protocol object of one client, and the one setup_phase rejects; the
\* timer reports any duration up to MaxElapsedMs.
MetricsInit ==
    /\ \E keys \in ProtoKeys, cfg \in {SingleConfig, InvalidConfig},
          elapsed_ms \in 0..MaxElapsedMs :
         st = [pc |-> "constructed", keys |-> keys, cfg |-> cfg,
               clients |-> <<>>, server |-> [global_encoding |-> <<>>],
               error |-> "none", calls |-> 0, beyond |-> FALSE, queries |-> 0,
               elapsed_ms |-> elapsed_ms, metrics |-> ZeroMetrics]
    /\ ge = Idle /\ pw = Idle /\ inc = Idle /\ agg = Idle /\ hc = Idle /\ sv = Idle

MetricsNext == SetupPhase \/ UpdatePhase \/ QueryPhase \/ ResetMetrics

SpecMetrics == MetricsInit /\ [][MetricsNext]_vars

QueryNext == SetupPhase \/ UpdatePhase \/ QueryPhase

SpecQuery == ProtoInit /\ [][QueryNext]_vars

SpecProto == ProtoInit /\ [][ProtoNext]_vars

\* The componentwise sum mod q of E_i + S_i over all clients.
SumOfMasked(clients, cfg) ==
    server_aggregate([i \in 1..Len(clients) |->
                         matrix_add(clients[i].encoding_matrix, clients[i].mask_matrix,
                                    cfg.modulus)],
                     cfg.partition_size, cfg.num_partitions, cfg.modulus)

\* C5: after setup_phase and after any sequence of update_phase calls, the
\* server's aggregated encoding is the componentwise sum mod q over all
\* parties of (current encoding matrix + mask matrix), which is also what
\* aggregating the current masked encodings from scratch gives.
C5_AggregateIsSumOfMasked ==
    (st.pc = "ready") =>
        /\ st.server.global_encoding = SumOfMasked(st.clients, st.cfg)
        /\ st.server.global_encoding =
             server_aggregate([i \in 1..Len(st.clients) |-> st.clients[i].masked_encoding],
                              st.cfg.partition_size, st.cfg.num_partitions,
                              st.cfg.modulus)

\* Two completed update calls after which both clients hold data sets other
\* than one element, the aggregate is not zero and a mask is not zero.
C5_Witness ==
    /\ st.pc = "ready" /\ st.calls = 2 /\ st.error = "none"
    /\ Cardinality(st.clients[1].data_set) = 2
    /\ st.clients[2].data_set = {}
    /\ st.clients[1].mask_matrix # zero_matrix(st.cfg.partition_size, st.cfg.num_partitions)
    /\ \E j \in 0..(st.cfg.num_partitions - 1) :
         st.server.global_encoding[0][j] # st.clients[1].masked_encoding[0][j]
    /\ st.clients[1].encoding_matrix # zero_matrix(st.cfg.partition_size, st.cfg.num_partitions)

Max(a, b) == IF a >= b THEN a ELSE b

\* Words a read past the end of a row may yield: a zero, a nonzero field
\* element, and two words that are not field elements.
OutOfBoundsWords(q) == {0, 1, q, Word - 1}

\* What the cells 0 .. max(len, d1)-1 of a row of size len hold: field
\* elements inside the row, some word past its end.
RowViews(len, d1, q) ==
    {r \in [0..(Max(len, d1) - 1) -> 0..(Word - 1)] :
        \A j \in DOMAIN r : IF j < len THEN r[j] < q
                                       ELSE r[j] \in OutOfBoundsWords(q)}

RECURSIVE RowSeqs(_, _, _, _)
RowSeqs(lens, k, d1, q) ==
    IF k = 0 THEN {<<>>}
    ELSE {Append(s, r) : s \in RowSeqs(lens, k - 1, d1, q),
                         r \in RowViews(lens[k - 1], d1, q)}

GEInvalidDimension ==
    \/ ge.d1 = 0
    \/ \E i \in 0..(ge.m - 1) : ge.lens[i] # ge.d1

GEDimInit ==
    /\ \E q \in GEPrimes, m \in 1..MaxRows :
         \E lens \in [0..(m - 1) -> 0..MaxRowLen] :
           \E rows \in RowSeqs(lens, m, lens[0], q),
              y \in [0..(m - 1) -> 0..(q - 1)] :
             ge = [pc |-> "build", M |-> [i \in 0..(m - 1) |-> rows[i + 1]],
                   y |-> y, q |-> q, m |-> m, d1 |-> lens[0], lens |-> lens,
                   augmented |-> <<>>, pivot_row |-> 0, col |-> 0,
                   result |-> <<>>, i |-> 0, pivot_cols |-> <<>>]
    /\ pw = Idle /\ inc = Idle /\ agg = Idle /\ hc = Idle /\ st = Idle /\ sv = Idle

\* Lines 76-78 read past the end of a row: one outcome is that the call
\* does not return.
GECrash ==
    /\ ge.pc = "build"
    /\ \E i \in 0..(ge.m - 1) : ge.lens[i] < ge.d1
    /\ ge' = [ge EXCEPT !.pc = "crashed"]
    /\ UNCHANGED <<pw, inc, agg, hc, st, sv>>

GEDimNext == GENext \/ GECrash

SpecGEDim == GEDimInit /\ [][GEDimNext]_vars

\* C11: InvalidDimension.  The solver rejects, before any elimination step
\* runs, an input whose d1 is 0 or in which some coefficient row's length
\* differs from d1: it returns no solution vector for such an input.
C11_InvalidDimensionRejected ==
    GEInvalidDimension => (ge.pc # "done")

(***************************************************************************)
(* SpecCfg: a configuration is filled in, compute_derived_params derives   *)
(* b and pir_fold_size from it, and the edge length L is taken from them.  *)
(* pir_dimension is a size_t, so z = 0 can be configured.                  *)
(***************************************************************************)
RawConfigs ==
    {[BaseConfig(N_size, d1, 1, 3) EXCEPT !.pir_dimension = z] :
        N_size \in 1..MaxDatasetSize, d1 \in 1..2, z \in 0..MaxZ}

\* Line 40: std::pow(b, 1.0 / z).  1.0 / 0 is +infinity, and pow(b, +inf)
\* is +infinity for b > 1 and 1 for b = 1.
pir_fold_size(cfg) ==
    IF cfg.pir_dimension = 0 /\ cfg.num_partitions > 1 THEN "inf" ELSE "finite"

\* L^z, with L^0 = 1 for every L.
Power(L, z) == IF z = 0 THEN 1 ELSE L ^ z

\* The values L can take.  The conversion of +infinity to size_t is
\* undefined: any word.
EdgeLengths(cfg, fold) ==
    IF fold = "inf" THEN 0..(Word - 1)
    ELSE IF cfg.pir_dimension = 0 THEN {1}
    ELSE {compute_pir_dimension_size(cfg.num_partitions, cfg.pir_dimension)}

CfgInit ==
    /\ \E cfg \in RawConfigs :
         hc = [pc |-> "raw", cfg |-> cfg, fold |-> "finite", L |-> 0, error |-> "none"]
    /\ ge = Idle /\ pw = Idle /\ inc = Idle /\ agg = Idle /\ st = Idle /\ sv = Idle

\* Lines 34-41: both derived fields are assigned; the function has no
\* failing path.
CfgDerive ==
    /\ hc.pc = "raw"
    /\ \E cfg \in {compute_derived_params(hc.cfg)} :
         hc' = [hc EXCEPT !.pc = "derived", !.cfg = cfg,
                          !.fold = pir_fold_size(cfg), !.error = "none"]
    /\ UNCHANGED <<ge, pw, inc, agg, st, sv>>

CfgDimensionSize ==
    /\ hc.pc = "derived"
    /\ \E L \in EdgeLengths(hc.cfg, hc.fold) :
         hc' = [hc EXCEPT !.pc = "sized", !.L = L]
    /\ UNCHANGED <<ge, pw, inc, agg, st, sv>>

CfgNext == CfgDerive \/ CfgDimensionSize

SpecCfg == CfgInit /\ [][CfgNext]_vars

\* C12: InvalidHypercube.  A configuration (b, z) whose derived edge length
\* L gives L^z < b is rejected when the derived parameters are computed.
C12_InvalidHypercubeRejected ==
    (hc.pc = "sized" /\ Power(hc.L, hc.cfg.pir_dimension) < hc.cfg.num_partitions)
        => (hc.error = "InvalidHypercube")

(***************************************************************************)
(* SpecCost: the computation cost accounted for one query, from the sizes  *)
(* of the z folding rounds of server_process_pir_query_z_dimension.        *)
(***************************************************************************)
\* The scale of round d (1..z): b in round 1, ceil(b / L^(d-1)) afterwards.
current_scale(b, L, d) == CeilDiv(b, L ^ (d - 1))

\* Scalar operations of rounds d..z, each round's scale times d1.
RECURSIVE FoldCostFrom(_, _, _, _, _)
FoldCostFrom(b, L, z, d1, d) ==
    IF d > z THEN 0
    ELSE current_scale(b, L, d) * d1 + FoldCostFrom(b, L, z, d1, d + 1)

query_computation_cost(b, z, d1) ==
    FoldCostFrom(b, compute_pir_dimension_size(b, z), z, d1, 1)

CostInit ==
    /\ \E b \in 1..MaxB, z \in 1..MaxZ, d1 \in 1..MaxD1 :
         hc = [pc |-> "config", b |-> b, z |-> z, d1 |-> d1, L |-> 0, cost |-> 0]
    /\ ge = Idle /\ pw = Idle /\ inc = Idle /\ agg = Idle /\ st = Idle /\ sv = Idle

CostDimensionSize ==
    /\ hc.pc = "config"
    /\ hc' = [hc EXCEPT !.pc = "sized", !.L = compute_pir_dimension_size(hc.b, hc.z)]
    /\ UNCHANGED <<ge, pw, inc, agg, st, sv>>

\* The z rounds are run and their cost is recorded.
CostAccount ==
    /\ hc.pc = "sized"
    /\ hc' = [hc EXCEPT !.pc = "accounted",
                        !.cost = FoldCostFrom(hc.b, hc.L, hc.z, hc.d1, 1)]
    /\ UNCHANGED <<ge, pw, inc, agg, st, sv>>

CostNext == CostDimensionSize \/ CostAccount

SpecCost == CostInit /\ [][CostNext]_vars

\* C15: cost monotonicity.  For fixed z and d1 the accounted computation
\* cost of a query (the sum over the z folding rounds of active slot count
\* times d1) does not decrease when the partition count b grows.
C15_CostMonotone ==
    (hc.pc = "accounted") =>
        \A b2 \in hc.b..(MaxB + 1) : hc.cost <= query_computation_cost(b2, hc.z, hc.d1)

MaskedIsEncodingPlusMask(client, q) ==
    client.masked_encoding = matrix_add(client.encoding_matrix, client.mask_matrix, q)

\* C16: each party's mask matrix is drawn once at setup and never changes:
\* no update_phase or query_phase call changes a mask matrix, and every
\* masked encoding is (current encoding matrix + mask) mod q.
C16_MaskDrawnOnce ==
    /\ [](st.pc = "ready" =>
            \A i \in 1..Len(st.clients) :
                MaskedIsEncodingPlusMask(st.clients[i], st.cfg.modulus))
    /\ [][st.pc = "ready" =>
            /\ Len(st'.clients) = Len(st.clients)
            /\ \A i \in 1..Len(st.clients) :
                 st'.clients[i].mask_matrix = st.clients[i].mask_matrix]_vars

\* An update that changed the first client's encoding, then a query; the
\* client's mask is not zero.
C16_Witness ==
    /\ st.pc = "ready" /\ st.calls = 1 /\ st.queries = 1 /\ st.error = "none"
    /\ st.clients[1].data_set = {}
    /\ st.clients[1].mask_matrix # zero_matrix(st.cfg.partition_size, st.cfg.num_partitions)
    /\ st.clients[1].masked_encoding = st.clients[1].mask_matrix

WindowStartAnywhere(h_pos, dimension, band_width) == Mod64(h_pos, dimension)

\* Line 42: pos = h_pos % (dimension - band_width + 1).
WindowStart(h_pos, dimension, band_width) == Mod64(h_pos, dimension - band_width + 1)

SVInit ==
    /\ \E keys \in KeyPool, element \in Elements, dimension \in 1..MaxD1 :
         \E band_width \in 1..dimension :
           sv = [pc |-> "start", k2 |-> keys.k2, element |-> element,
                 dimension |-> dimension, band_width |-> band_width,
                 v |-> <<>>, pos |-> 0, i |-> 0]
    /\ ge = Idle /\ pw = Idle /\ inc = Idle /\ agg = Idle /\ hc = Idle /\ st = Idle

\* Lines 39-42: v is zeroed and the start of the window is computed.
SVAllocate ==
    /\ sv.pc = "start"
    /\ sv' = [sv EXCEPT !.pc = "loop",
                        !.v = [j \in 0..(sv.dimension - 1) |-> 0],
                        !.pos = WindowStart(hash_partition(sv.k2, ToBits(sv.element)),
                                            sv.dimension, sv.band_width),
                        !.i = 0]
    /\ UNCHANGED <<ge, pw, inc, agg, hc, st>>

\* Lines 44-47: one iteration of the loop.  A write at or past v.size() is
\* undefined; the run is then marked as overrun.
SVWrite ==
    /\ sv.pc = "loop"
    /\ sv.i < sv.band_width
    /\ IF sv.pos + sv.i < sv.dimension
       THEN sv' = [sv EXCEPT
                     !.v[sv.pos + sv.i] =
                        Mod64(hash_partition(Xor64(sv.k2, ToBits(sv.element + sv.i)),
                                             ToBits(sv.element)), 2),
                     !.i = @ + 1]
       ELSE sv' = [sv EXCEPT !.pc = "overrun"]
    /\ UNCHANGED <<ge, pw, inc, agg, hc, st>>

\* Line 49: return v.
SVReturn ==
    /\ sv.pc = "loop"
    /\ sv.i >= sv.band_width
    /\ sv' = [sv EXCEPT !.pc = "done"]
    /\ UNCHANGED <<ge, pw, inc, agg, hc, st>>

SVNext == SVAllocate \/ SVWrite \/ SVReturn

SpecSV == SVInit /\ [][SVNext]_vars

\* C18: for 1 <= w <= d1, sparse_vector(k2, element, d1, w) returns a
\* length-d1 vector that is 0 outside the window [pos, pos + w) with
\* pos = hash_partition(k2, element) mod (d1 - w + 1), whose entry at pos + i
\* is hash_partition(k2 xor (element + i), element) mod 2 for each i in
\* [0, w), and no index pos + i reaches d1.
C18_SparseVectorWindow ==
    /\ sv.pc # "overrun"
    /\ (sv.pc = "done") =>
         LET d1  == sv.dimension
             w   == sv.band_width
             pos == Mod64(hash_partition(sv.k2, ToBits(sv.element)), d1 - w + 1)
         IN  /\ DOMAIN sv.v = 0..(d1 - 1)
             /\ \A j \in 0..(d1 - 1) : (j < pos \/ j >= pos + w) => sv.v[j] = 0
             /\ \A i \in 0..(w - 1) :
                  /\ pos + i < d1
                  /\ sv.v[pos + i] =
                       Mod64(hash_partition(Xor64(sv.k2, ToBits(sv.element + i)),
                                            ToBits(sv.element)), 2)
             /\ sv.v = sparse_vector(sv.k2, sv.element, d1, w)

\* A returned vector whose window of two entries does not start at 0 and
\* holds a 1.
C18_Witness ==
    /\ sv.pc = "done" /\ sv.band_width = 2 /\ sv.dimension = 3
    /\ sv.pos = 1
    /\ \E i \in 0..1 : sv.v[sv.pos + i] = 1

\* C19: the solver never reports inconsistency.  When elimination leaves an
\* all-zero coefficient row with a nonzero right-hand side, the call goes on
\* to its return statement and returns a vector of length d1 with entries in
\* [0, q); it has no error exit.
C19_NoInconsistencyReport ==
    /\ ge.pc \in {"build", "forward", "back", "done"}
    /\ (ge.pc = "back" /\ GEInconsistent) => ENABLED GENext
    /\ (GEDone /\ GEInconsistent) =>
         /\ DOMAIN ge.result = 0..(ge.d1 - 1)
         /\ \A j \in 0..(ge.d1 - 1) : ge.result[j] \in 0..(ge.q - 1)

\* A returned vector for a system of two equal coefficient rows with
\* different right-hand sides, which has no solution.
C19_Witness ==
    /\ GEDone /\ GEInconsistent /\ ~GESolvable
    /\ ge.m = 2 /\ ge.M[0] = ge.M[1] /\ ge.y[0] # ge.y[1]
    /\ \E j \in 0..(ge.d1 - 1) : ge.result[j] # 0

\* C20: the delta matrix of client_incremental_update is zero in every
\* partition column that no added or deleted element maps to, and in each
\* touched column it is (new encoding vector - old encoding vector) mod q,
\* the new vector being the encoding of the partition's new members; the
\* client's encoding of an untouched partition is unchanged.
C20_DeltaFrame ==
    (inc.pc = "updated") =>
        LET q     == inc.cfg.modulus
            old   == inc.old.encoding_matrix
            new   == inc.client.encoding_matrix
            fresh == client_encode(inc.keys, inc.cfg, inc.client.data_set)
            hit   == {hash_partition(inc.keys.k1, ToBits(x)) : x \in inc.X_add \cup inc.X_del}
        IN  \A j \in 0..(inc.cfg.num_partitions - 1) :
              \A r \in 0..(inc.cfg.partition_size - 1) :
                IF \E h \in hit : Mod64(h, inc.cfg.num_partitions) = j
                THEN /\ new[r][j] = fresh[r][j]
                     /\ inc.delta[r][j] = (new[r][j] - old[r][j] + q) % q
                ELSE /\ inc.delta[r][j] = 0
                     /\ new[r][j] = old[r][j]

\* An update with a deletion that touches one partition and changes it,
\* while the other partition holds a nonzero encoding and is not touched.
C20_Witness ==
    /\ inc.pc = "updated" /\ inc.X_del # {}
    /\ \E j, k \in 0..(inc.cfg.num_partitions - 1) :
         /\ j # k
         /\ TouchedPartitions(inc.keys, inc.cfg, inc.X_add, inc.X_del) = {j}
         /\ \E r \in 0..(inc.cfg.partition_size - 1) : inc.delta[r][j] # 0
         /\ \E r \in 0..(inc.cfg.partition_size - 1) : inc.client.encoding_matrix[r][k] # 0

(***************************************************************************)
(* SpecFold: the z folding rounds of server_process_pir_query_z_dimension  *)
(* for the partition j of the queried element.  A slot holds the set of    *)
(* partitions whose encoding vectors are combined into its row; the        *)
(* aggregated encoding is laid out as L^z slots of which the first b are   *)
(* the partitions and the rest are zero.                                   *)
(***************************************************************************)
\* The slots before round 1.
InitialSlots(b, L, z) == [k \in 0..(L ^ z - 1) |-> IF k < b THEN {k} ELSE {}]

\* The leading axis of n slots is contracted with a selection vector that
\* is nonzero exactly at the indices in sel.
Contract(slots, n, L, sel) ==
    [rest \in 0..((n \div L) - 1) |->
        UNION {slots[i * (n \div L) + rest] : i \in sel}]

\* A plausible slip: round d takes the digit of the round before.
OneHotPrevious(coords, d) == {coords[d - 1]}

\* Where the one-hot vector of dimension d (2..z) is 1.
OneHot(coords, d) == {coords[d]}

\* Dimension 1: a weighted vector, nonzero everywhere, or the one-hot
\* vector of digit 1.
FirstSelections(coords, L) == {0..(L - 1), {coords[1]}}

FoldInit ==
    /\ \E b \in 1..MaxB, z \in 1..MaxZ :
         \E j \in 0..(b - 1) :
           hc = [pc |-> "query", b |-> b, z |-> z, j |-> j, L |-> 0, coords |-> <<>>,
                 d |-> 0, scale |-> 0, prev |-> 0, slots |-> <<>>, first |-> {}]
    /\ ge = Idle /\ pw = Idle /\ inc = Idle /\ agg = Idle /\ st = Idle /\ sv = Idle

\* L and the coordinates of j are computed and the encoding is laid out.
FoldStart ==
    /\ hc.pc = "query"
    /\ \E L \in {compute_pir_dimension_size(hc.b, hc.z)} :
         hc' = [hc EXCEPT !.pc = "fold", !.L = L,
                          !.coords = compute_hypercube_coordinates(hc.j, L, hc.z),
                          !.slots = InitialSlots(hc.b, L, hc.z)]
    /\ UNCHANGED <<ge, pw, inc, agg, st, sv>>

\* Round 1: scale b.
FoldFirstRound ==
    /\ hc.pc = "fold" /\ hc.d = 0
    /\ \E sel \in FirstSelections(hc.coords, hc.L) :
         hc' = [hc EXCEPT !.d = 1, !.scale = current_scale(hc.b, hc.L, 1),
                          !.first = sel,
                          !.slots = Contract(hc.slots, hc.L ^ hc.z, hc.L, sel)]
    /\ UNCHANGED <<ge, pw, inc, agg, st, sv>>

\* Round d = 2..z: scale ceil(b / L^(d-1)), one-hot selection of digit d.
FoldRound ==
    /\ hc.pc = "fold" /\ hc.d >= 1 /\ hc.d < hc.z
    /\ hc' = [hc EXCEPT !.d = @ + 1, !.prev = hc.scale,
                        !.scale = current_scale(hc.b, hc.L, hc.d + 1),
                        !.slots = Contract(hc.slots, hc.L ^ (hc.z - hc.d), hc.L,
                                           OneHot(hc.coords, hc.d + 1))]
    /\ UNCHANGED <<ge, pw, inc, agg, st, sv>>

\* The loop over the dimensions ends and the response row is returned.
FoldReturn ==
    /\ hc.pc = "fold" /\ hc.d >= hc.z
    /\ hc' = [hc EXCEPT !.pc = "done"]
    /\ UNCHANGED <<ge, pw, inc, agg, st, sv>>

FoldNext == FoldStart \/ FoldFirstRound \/ FoldRound \/ FoldReturn

SpecFold == FoldInit /\ [][FoldNext]_vars

\* The partitions that agree with j on the digits 2..z and whose digit 1
\* is selected by the vector of dimension 1.
SelectedPartitions ==
    {k \in 0..(hc.b - 1) :
        LET c == compute_hypercube_coordinates(k, hc.L, hc.z)
        IN  /\ c[1] \in hc.first
            /\ \A d \in 2..hc.z : c[d] = hc.coords[d]}

\* What both readings of C21 share: the call returns after exactly z
\* rounds, one row is left, and it combines the rows of the partitions
\* that have the digits 2..z of j.
FoldSelectsPartition ==
    /\ hc.pc \in {"fold", "done"} => hc.d <= hc.z
    /\ hc.pc = "done" =>
         /\ hc.d = hc.z
         /\ DOMAIN hc.slots = {0}
         /\ CeilDiv(hc.scale, hc.L) = 1
         /\ hc.slots[0] = SelectedPartitions
         /\ hc.first = {hc.coords[1]} => hc.slots[0] = {hc.j}

GEFreeColumns == (0..(ge.d1 - 1)) \ {ge.pivot_cols[r] : r \in 1..Len(ge.pivot_cols)}

\* C22: in the vector returned by gaussian_elimination every free column
\* (one that received no pivot during forward elimination) holds 0, for
\* every input with m >= 1.
C22_FreeColumnsZero ==
    GEDone => \A j \in GEFreeColumns : ge.result[j] = 0

\* A returned vector with a free column to the left of a pivot column and a
\* nonzero value in the pivot column.
C22_Witness ==
    /\ GEDone
    /\ \E j \in GEFreeColumns, r \in 1..Len(ge.pivot_cols) :
         j < ge.pivot_cols[r] /\ ge.result[ge.pivot_cols[r]] # 0

\* C25: row-echelon invariant of forward elimination (q prime, entries in
\* [0, q)).  When the forward loop has ended, rows 0..pivot_row-1 each have
\* leading coefficient 1, their leading columns strictly increase with the
\* row index, every entry below a pivot in its column is 0 and every row
\* with index >= pivot_row has all d1 coefficients 0; so the leading-column
\* scan of back substitution finds the pivot column of each pivot row.
C25_RowEchelon ==
    (ge.pc \in {"back", "done"}) =>
        /\ Len(ge.pivot_cols) = ge.pivot_row
        /\ \A r \in 0..(ge.pivot_row - 1) :
             LET lead == LeadingCol(ge.augmented[r], ge.d1)
             IN  /\ lead = ge.pivot_cols[r + 1]
                 /\ ge.augmented[r][lead] = 1
                 /\ \A r2 \in (r + 1)..(ge.pivot_row - 1) :
                      lead < LeadingCol(ge.augmented[r2], ge.d1)
                 /\ \A i \in (r + 1)..(ge.m - 1) : ge.augmented[i][lead] = 0
        /\ \A i \in ge.pivot_row..(ge.m - 1) :
             \A j \in 0..(ge.d1 - 1) : ge.augmented[i][j] = 0

\* The loop has ended with two pivot rows, the first found after a row swap
\* and with a pivot other than 1, and a nonzero entry right of the first
\* pivot.
C25_Witness ==
    /\ ge.pc = "back" /\ ge.m = 2 /\ ge.d1 = 2 /\ ge.pivot_row = 2
    /\ ge.pivot_cols = <<0, 1>>
    /\ ge.M[0][0] = 0 /\ ge.M[1][0] > 1
    /\ ge.augmented[0][1] # 0

(***************************************************************************)
(* add_mod, sub_mod and mul_mod called on reduced operands.                *)
(***************************************************************************)
ModInit ==
    /\ \E q \in 1..(Word - 1) : \E a, b \in 0..(q - 1) :
         pw = [pc |-> "call", a |-> a, b |-> b, q |-> q, op |-> "none",
               exact |-> 0, wide |-> 0, negated |-> 0, ret |-> 0]
    /\ ge = Idle /\ inc = Idle /\ agg = Idle /\ hc = Idle /\ st = Idle /\ sv = Idle

\* Lines 110-113.  exact is the sum over the integers.
ModAdd ==
    /\ pw.pc = "call"
    /\ pw' = [pw EXCEPT !.pc = "return", !.op = "add",
                        !.exact = pw.a + pw.b,
                        !.wide = sum128(pw.a, pw.b),
                        !.ret = add_mod(pw.a, pw.b, pw.q) % Word]
    /\ UNCHANGED <<ge, inc, agg, hc, st, sv>>

\* Lines 118-121.  exact is a + (q - b) over the integers.
ModSub ==
    /\ pw.pc = "call"
    /\ pw' = [pw EXCEPT !.pc = "return", !.op = "sub",
                        !.exact = pw.a + (pw.q - pw.b),
                        !.negated = negated128(pw.b, pw.q),
                        !.wide = result128(pw.a, pw.b, pw.q),
                        !.ret = sub_mod(pw.a, pw.b, pw.q) % Word]
    /\ UNCHANGED <<ge, inc, agg, hc, st, sv>>

\* Lines 126-129.  exact is the product over the integers.
ModMul ==
    /\ pw.pc = "call"
    /\ pw' = [pw EXCEPT !.pc = "return", !.op = "mul",
                        !.exact = pw.a * pw.b,
                        !.wide = product128(pw.a, pw.b),
                        !.ret = mul_mod(pw.a, pw.b, pw.q) % Word]
    /\ UNCHANGED <<ge, inc, agg, hc, st, sv>>

ModReturn ==
    /\ pw.pc = "return"
    /\ pw' = [pw EXCEPT !.pc = "done"]
    /\ UNCHANGED <<ge, inc, agg, hc, st, sv>>

ModNext == ModAdd \/ ModSub \/ ModMul \/ ModReturn

SpecMod == ModInit /\ [][ModNext]_vars

\* The value of the operation over the integers, reduced into [0, q).
ModExpected ==
    CASE pw.op = "add" -> (pw.a + pw.b) % pw.q
      [] pw.op = "sub" -> (pw.a - pw.b) % pw.q
      [] pw.op = "mul" -> (pw.a * pw.b) % pw.q

\* C24: for every modulus q in [1, 2^WordBits) and all operands a, b in
\* [0, q), add_mod, sub_mod and mul_mod return exactly (a + b) mod q,
\* (a - b) mod q and (a * b) mod q, each in [0, q), the widened intermediate
\* does not wrap around, and the a + (q - b) of sub_mod does not underflow.
C24_ModularArithmeticExact ==
    (pw.pc = "done") =>
        /\ pw.ret = ModExpected
        /\ pw.ret \in 0..(pw.q - 1)
        /\ pw.wide = pw.exact
        /\ (pw.op = "sub") => (pw.negated = pw.q - pw.b /\ pw.negated >= 1)

\* A product that does not fit the narrow word and a difference of a < b
\* are both among the calls; the witness is the product.
C24_Witness ==
    /\ pw.pc = "done" /\ pw.op = "mul"
    /\ pw.q = Word - 1
    /\ pw.a * pw.b >= Word
    /\ ((pw.a * pw.b) % Word) % pw.q # pw.ret

(***************************************************************************)
(* SpecMetrics: the phases and reset_metrics in any order.                 *)
(***************************************************************************)
SetupCounters ==
    {"setup_client_encoding_time_ms", "setup_server_aggregation_time_ms",
     "setup_client_comm_bytes", "setup_total_comm_bytes"}

UpdateCounters ==
    {"update_client_time_ms", "update_server_time_ms", "update_client_comm_bytes"}

QueryCounters ==
    {"query_client_gen_time_ms", "query_server_process_time_ms",
     "query_client_decrypt_time_ms", "query_comm_bytes", "response_comm_bytes"}

ByteCounters ==
    {"setup_client_comm_bytes", "setup_total_comm_bytes",
     "update_client_comm_bytes", "query_comm_bytes", "response_comm_bytes"}

\* The step leaves the counters of the set as they are.
CountersKept(counters) == \A c \in counters : st'.metrics[c] = st.metrics[c]

====
